---- MODULE Spec2Model ----
(***************************************************************************)
(* A model of the AIVPN shared-state layer, src/common/database.py: the    *)
(* identity directory, the active-profile (quota) counter, the OpenVPN IP  *)
(* lease pool, the profile registry and the two provisioning queues, as    *)
(* used by concurrent worker processes through one Redis store.            *)
(*                                                                         *)
(* Every store call (a hash-field or sorted-set command) is one atomic     *)
(* step.  A function of database.py that issues several store calls is a   *)
(* sequence of steps of one worker, and the steps of different workers     *)
(* interleave.  A store call inside a try block may raise (the connection  *)
(* is lost); the except branch of the function then decides the result.    *)
(***************************************************************************)
EXTENDS Integers, Sequences, FiniteSets, TLC

VARIABLES
    account_identities,        \* hash "account_identities": msg_addr -> identity record
    profile_names,             \* hash "profile_names": profile_name -> msg_addr
    active_profiles,           \* hash "active_profiles": msg_addr -> counter
    blocked_ip_addresses,      \* hash "mod_openvpn_blocked_ip_addresses": the leased addresses
    profile_name_ip_address,   \* hash "profile_name_ip_address": profile_name -> ip_address
    granted,                   \* history: per address, the calls that hold it after marking it
    unmarked,                  \* history: per address, the calls that hold it without marking it
    provisioning_queue,        \* sorted set "provisioning_queue": set of [member, score]
    prov_generate_vpn,         \* sorted set "prov_generate_vpn": set of [member, score]
    now,                       \* the value time.time() returns
    added,                     \* history: per queue and member, the number of new additions
    claimed,                   \* history: per queue and member, the number of hand-outs to callers
    pc,                        \* per worker: the call in progress and its locals
    ret,                       \* the last completed call: its worker, function and return value
    prev,                      \* history of a sequential run: the call completed before the last
    before,                    \* history of a sequential run: the hash as it was before the
                               \* last call and before the call that preceded it
    applied,                   \* history: per identity, the upd_identity_counter and
                               \* upd_identity_profiles calls completed without error
    raced                      \* history: per identity, whether its record was changed between
                               \* the hget and the hset of an upd_identity_* call

vars == <<account_identities, profile_names,
          active_profiles, blocked_ip_addresses, profile_name_ip_address, granted, unmarked,
          provisioning_queue, prov_generate_vpn, now, added, claimed,
          pc, ret, prev, before, applied, raced>>

queueVars == <<provisioning_queue, prov_generate_vpn, now, added, claimed>>
seqVars == <<prev, before>>
quotaVars == <<active_profiles>>
leaseVars == <<blocked_ip_addresses, granted, unmarked>>

identityVars == <<account_identities>>
identityHistory == <<applied, raced>>
registryVars == <<profile_names>>
relationVars == <<profile_name_ip_address>>

\* What the functions of each section leave alone.
notQueue == <<identityVars, identityHistory, registryVars, relationVars, quotaVars, leaseVars,
              seqVars>>
notQuota == <<identityVars, identityHistory, registryVars, relationVars, queueVars, leaseVars>>
notLease == <<identityVars, identityHistory, registryVars, relationVars, queueVars, quotaVars,
              seqVars>>
\* The history of the identity records is kept by the specifications, not by the steps.
notIdentity == <<registryVars, relationVars, queueVars, quotaVars, leaseVars, seqVars>>
notRegistry == <<identityVars, identityHistory, relationVars, queueVars, quotaVars, leaseVars,
                 seqVars>>
notRelation == <<identityVars, identityHistory, registryVars, queueVars, quotaVars, leaseVars,
                 seqVars>>

----------------------------------------------------------------------------
(* Bounds and universes of the model *)

MaxTime == 2
MaxEnq == 2
MaxCounter == 3
MaxProfiles == 1
\* The number of addresses in the range NETWORK_CIDR denotes.
RangeSize == 2
MaxLeases == RangeSize + 2
\* The completed updates of one identity field the history counts.
MaxApplied == MaxProfiles + 1

Workers == {"w1", "w2"}

\* Arguments callers pass as msg_id: an int, a numeric string, a non-numeric string.
MsgIdArgs ==
    { [repr |-> "int", n |-> 1], [repr |-> "str", n |-> 1],
      [repr |-> "int", n |-> 2], [repr |-> "nan", n |-> 0] }
MsgTypes == {"email"}
MsgAddrs == {"a1"}
ProfileNames == {"p1", "p2"}
Addrs == {"a1", "a2"}
\* The identity the identity functions are called for.
IdentityAddrs == {"a1"}
GpgKeys == {"k1"}

\* [str(ip) for ip in ipaddress.IPv4Network(NETWORK_CIDR)]: every address of the
\* range, network and broadcast address included, named by its position.
IPv4Network == 1..RangeSize

\* The serialized requests json.dumps can produce from the arguments above.
Requests == { <<i, t, a>> : i \in {1, 2}, t \in MsgTypes, a \in MsgAddrs }

Idle == [op |-> "idle"]

----------------------------------------------------------------------------
(* Python values a call returns *)

PyTrue == [kind |-> "True", val |-> <<>>]
PyFalse == [kind |-> "False", val |-> <<>>]
PyErr(e) == [kind |-> "err", val |-> <<e>>]
PyList(l) == [kind |-> "list", val |-> l]
PyNone == [kind |-> "None", val |-> <<>>]
PyStr(x) == [kind |-> "str", val |-> <<x>>]
PyInt(n) == [kind |-> "int", val |-> <<n>>]
\* An exception that leaves the function (no except clause catches it).
PyRaise(e) == [kind |-> "raise", val |-> <<e>>]

Returned(w, op, args, v) == [w |-> w, op |-> op, args |-> args, kind |-> v.kind, val |-> v.val]
NoCall == [w |-> "none", op |-> "none", args |-> <<>>, kind |-> "none", val |-> <<>>]

----------------------------------------------------------------------------
(* Redis sorted sets, as redis-py exposes them *)

Members(zset) == { e.member : e \in zset }

\* ZADD key NX score member: adds the member only if it is absent; the score of
\* a member that is present is left alone.
zadd_nx(zset, member, score) ==
    IF member \in Members(zset)
    THEN zset
    ELSE zset \cup {[member |-> member, score |-> score]}

\* Redis orders a sorted set by score, and members of equal score by their bytes.
RequestRank == [m \in Requests |-> m[1]]
NameRank == [n \in ProfileNames |-> IF n = "p1" THEN 1 ELSE 2]

ZBefore(e, f, rank) ==
    \/ e.score < f.score
    \/ e.score = f.score /\ rank[e.member] <= rank[f.member]

ZMin(zset, rank) == CHOOSE e \in zset : \A f \in zset : ZBefore(e, f, rank)

\* ZPOPMIN key 1: removes the entry of lowest score and returns it in a list;
\* on an empty set it returns the empty list.
zpopmin(zset, rank) ==
    IF zset = {}
    THEN [zset |-> zset, popped |-> <<>>]
    ELSE LET e == ZMin(zset, rank)
         IN [zset |-> zset \ {e}, popped |-> <<e>>]

----------------------------------------------------------------------------
(* Redis hashes, through the helpers hsetnx, hset, hget, hexists, hdel and     *)
(* hincrby that database.py calls.  A hash is a function from the fields it    *)
(* holds to their values; hget hands back the value as it was stored.          *)

EmptyHash == [k \in {} |-> 0]

\* hsetnx: sets the field only if it is absent.
HSetNX(h, k, v) == IF k \in DOMAIN h THEN h ELSE h @@ (k :> v)
\* hsetnx returns 1 if it created the field and 0 if the field existed.
HSetNXStatus(h, k) == IF k \in DOMAIN h THEN 0 ELSE 1
\* hset: sets the field, present or not.
HSet(h, k, v) == [x \in DOMAIN h \cup {k} |-> IF x = k THEN v ELSE h[x]]
HExists(h, k) == k \in DOMAIN h
\* hdel: removes the field.
HDel(h, k) == [x \in DOMAIN h \ {k} |-> h[x]]
\* hincrby: adds n to the field, an absent field counting as 0.
HIncrBy(h, k, n) == IF k \in DOMAIN h THEN [h EXCEPT ![k] = @ + n] ELSE h @@ (k :> n)

----------------------------------------------------------------------------
(* Python conversions used when a request is built *)

\* int(msg_id): the number an int or a numeric string denotes; ValueError otherwise.
int_raises(msg_id) == msg_id.repr = "nan"
int(msg_id) == msg_id.n

\* json.dumps of the dict {"msg_id", "msg_type", "msg_addr"}: the text is determined
\* by, and determines, the three converted values.
json_dumps_request(msg_id, msg_type, msg_addr) == <<int(msg_id), msg_type, msg_addr>>

----------------------------------------------------------------------------
(* PROVISIONING QUEUE and PROVISIONING GENERATE VPN QUEUE: the functions *)

\* (mutant) zadd without nx=True: the score of a pending member is refreshed.
add_item_provisioning_queue_refresh(zset, new_request, score, fail) ==
    IF fail
    THEN [zset |-> zset, ret |-> PyErr("ConnectionError")]
    ELSE [zset |-> { e \in zset : e.member # new_request }
                     \cup {[member |-> new_request, score |-> score]},
          ret |-> PyTrue]

\* add_item_provisioning_queue, the zadd call and what follows it.
add_item_provisioning_queue(zset, new_request, score, fail) ==
    IF fail
    THEN [zset |-> zset, ret |-> PyErr("ConnectionError")]
    ELSE [zset |-> zadd_nx(zset, new_request, score), ret |-> PyTrue]

\* (mutant) reads the lowest entry without removing it (zrange in place of zpopmin).
get_item_provisioning_queue_peek(zset, fail) ==
    IF fail
    THEN [zset |-> zset, ret |-> PyErr("ConnectionError")]
    ELSE [zset |-> zset, ret |-> PyList(zpopmin(zset, RequestRank).popped)]

\* (mutant) pops the highest score (zpopmax in place of zpopmin).
get_item_provisioning_queue_newest(zset, fail) ==
    IF fail
    THEN [zset |-> zset, ret |-> PyErr("ConnectionError")]
    ELSE IF zset = {}
         THEN [zset |-> zset, ret |-> PyList(<<>>)]
         ELSE LET e == CHOOSE x \in zset : \A f \in zset : ZBefore(f, x, RequestRank)
              IN [zset |-> zset \ {e}, ret |-> PyList(<<e>>)]

\* get_item_provisioning_queue: returns what zpopmin returned.
get_item_provisioning_queue(zset, fail) ==
    IF fail
    THEN [zset |-> zset, ret |-> PyErr("ConnectionError")]
    ELSE LET r == zpopmin(zset, RequestRank)
         IN [zset |-> r.zset, ret |-> PyList(r.popped)]

\* add_prov_generate_vpn, the zadd call and what follows it.
add_prov_generate_vpn(zset, profile_name, score, fail) ==
    IF fail
    THEN [zset |-> zset, ret |-> PyErr("ConnectionError")]
    ELSE [zset |-> zadd_nx(zset, profile_name, score), ret |-> PyTrue]

\* get_prov_generate_vpn: pops into `request`, then evaluates `return profile_name`,
\* a name the function never binds: NameError, which the except clause returns.
get_prov_generate_vpn(zset, fail) ==
    IF fail
    THEN [zset |-> zset, ret |-> PyErr("ConnectionError")]
    ELSE LET r == zpopmin(zset, NameRank)
         IN [zset |-> r.zset, ret |-> PyErr("NameError")]

----------------------------------------------------------------------------
(* History bookkeeping of the queues *)

RECURSIVE SumOver(_, _)
SumOver(f, S) ==
    IF S = {} THEN 0
    ELSE LET x == CHOOSE y \in S : TRUE IN f[x] + SumOver(f, S \ {x})

\* The number of entries the run has added to the two queues so far.
TotalAdded ==
    SumOver(added.provisioning_queue, Requests) + SumOver(added.prov_generate_vpn, ProfileNames)

\* The members a step added to a sorted set.
NewMembers(zset, zset2) == Members(zset2) \ Members(zset)

CountAdded(q, zset, zset2) ==
    [added EXCEPT ![q] =
        [m \in DOMAIN added[q] |->
            IF m \in NewMembers(zset, zset2) THEN added[q][m] + 1 ELSE added[q][m]]]

\* The members a call handed to its caller.
Handed(r) == IF r.kind = "list" THEN { r.val[i].member : i \in 1..Len(r.val) } ELSE {}

CountClaimed(q, r) ==
    [claimed EXCEPT ![q] =
        [m \in DOMAIN claimed[q] |->
            IF m \in Handed(r) THEN claimed[q][m] + 1 ELSE claimed[q][m]]]

----------------------------------------------------------------------------
(* Initial state: an empty store, every worker between calls *)

Init ==
    /\ provisioning_queue = {}
    /\ prov_generate_vpn = {}
    /\ now = 0
    /\ added = [provisioning_queue |-> [m \in Requests |-> 0],
                prov_generate_vpn |-> [m \in ProfileNames |-> 0]]
    /\ claimed = [provisioning_queue |-> [m \in Requests |-> 0],
                  prov_generate_vpn |-> [m \in ProfileNames |-> 0]]
    /\ account_identities = EmptyHash
    /\ profile_names = EmptyHash
    /\ active_profiles = EmptyHash
    /\ blocked_ip_addresses = EmptyHash
    /\ profile_name_ip_address = EmptyHash
    /\ granted = [ip \in IPv4Network |-> 0]
    /\ unmarked = [ip \in IPv4Network |-> 0]
    /\ pc = [w \in Workers |-> Idle]
    /\ ret = NoCall
    /\ prev = NoCall
    /\ before = <<EmptyHash, EmptyHash>>
    /\ applied = [a \in IdentityAddrs |-> [counter |-> 0, profiles |-> 0]]
    /\ raced = [a \in IdentityAddrs |-> FALSE]

----------------------------------------------------------------------------
(* Steps of the queue functions *)

\* The clock advances between any two steps.
Tick ==
    /\ now < MaxTime
    /\ now' = now + 1
    /\ UNCHANGED <<provisioning_queue, prov_generate_vpn, added, claimed, pc, ret, notQueue>>

\* add_item_provisioning_queue, lines 288-294: reads the clock, builds the request.
AddItemProvisioningQueueBuild(w) ==
    /\ pc[w].op = "idle"
    /\ TotalAdded < MaxEnq
    /\ \E msg_id \in MsgIdArgs, msg_type \in MsgTypes, msg_addr \in MsgAddrs :
          IF int_raises(msg_id)
          THEN /\ ret' = Returned(w, "add_item_provisioning_queue", <<>>, PyErr("ValueError"))
               /\ pc' = pc
          ELSE /\ pc' = [pc EXCEPT ![w] =
                            [op |-> "add_item_provisioning_queue",
                             new_request |-> json_dumps_request(msg_id, msg_type, msg_addr),
                             score |-> now]]
               /\ ret' = ret
    /\ UNCHANGED <<queueVars, notQueue>>

\* add_item_provisioning_queue, lines 297-301: zadd and return.
AddItemProvisioningQueueZadd(w) ==
    /\ pc[w].op = "add_item_provisioning_queue"
    /\ \E fail \in BOOLEAN :
          LET r == add_item_provisioning_queue(provisioning_queue,
                                               pc[w].new_request, pc[w].score, fail)
          IN /\ provisioning_queue' = r.zset
             /\ added' = CountAdded("provisioning_queue", provisioning_queue, r.zset)
             /\ ret' = Returned(w, "add_item_provisioning_queue",
                              <<pc[w].new_request, pc[w].score>>, r.ret)
    /\ pc' = [pc EXCEPT ![w] = Idle]
    /\ UNCHANGED <<prov_generate_vpn, now, claimed, notQueue>>

\* get_item_provisioning_queue, lines 308-313.
GetItemProvisioningQueue(w) ==
    /\ pc[w].op = "idle"
    /\ \E fail \in BOOLEAN :
          LET r == get_item_provisioning_queue(provisioning_queue, fail)
          IN /\ provisioning_queue' = r.zset
             /\ claimed' = CountClaimed("provisioning_queue", r.ret)
             /\ ret' = Returned(w, "get_item_provisioning_queue", <<>>, r.ret)
    /\ UNCHANGED <<prov_generate_vpn, now, added, pc, notQueue>>

\* add_prov_generate_vpn, lines 323-324: reads the clock.
AddProvGenerateVpnScore(w) ==
    /\ pc[w].op = "idle"
    /\ TotalAdded < MaxEnq
    /\ \E profile_name \in ProfileNames :
          pc' = [pc EXCEPT ![w] =
                    [op |-> "add_prov_generate_vpn",
                     profile_name |-> profile_name, score |-> now]]
    /\ UNCHANGED <<queueVars, ret, notQueue>>

\* add_prov_generate_vpn, lines 326-329: zadd and return.
AddProvGenerateVpnZadd(w) ==
    /\ pc[w].op = "add_prov_generate_vpn"
    /\ \E fail \in BOOLEAN :
          LET r == add_prov_generate_vpn(prov_generate_vpn,
                                         pc[w].profile_name, pc[w].score, fail)
          IN /\ prov_generate_vpn' = r.zset
             /\ added' = CountAdded("prov_generate_vpn", prov_generate_vpn, r.zset)
             /\ ret' = Returned(w, "add_prov_generate_vpn",
                              <<pc[w].profile_name, pc[w].score>>, r.ret)
    /\ pc' = [pc EXCEPT ![w] = Idle]
    /\ UNCHANGED <<provisioning_queue, now, claimed, notQueue>>

\* get_prov_generate_vpn, lines 335-340.
GetProvGenerateVpn(w) ==
    /\ pc[w].op = "idle"
    /\ \E fail \in BOOLEAN :
          LET r == get_prov_generate_vpn(prov_generate_vpn, fail)
          IN /\ prov_generate_vpn' = r.zset
             /\ claimed' = CountClaimed("prov_generate_vpn", r.ret)
             /\ ret' = Returned(w, "get_prov_generate_vpn", <<>>, r.ret)
    /\ UNCHANGED <<provisioning_queue, now, added, pc, notQueue>>

NextQueue ==
    \/ Tick
    \/ \E w \in Workers : AddItemProvisioningQueueBuild(w)
    \/ \E w \in Workers : AddItemProvisioningQueueZadd(w)
    \/ \E w \in Workers : GetItemProvisioningQueue(w)
    \/ \E w \in Workers : AddProvGenerateVpnScore(w)
    \/ \E w \in Workers : AddProvGenerateVpnZadd(w)
    \/ \E w \in Workers : GetProvGenerateVpn(w)

SpecQueue == Init /\ [][NextQueue]_vars

----------------------------------------------------------------------------
(* Claims about the queues *)

Pending(zset, m) == IF m \in Members(zset) THEN 1 ELSE 0

\* C1: on either queue, every entry is handed to at most one DequeueOldest caller
\* and a handed-out entry is no longer pending: for every member, the hand-outs
\* plus the pending entry never exceed the additions, however the calls interleave.
C1_DequeueAtMostOnce ==
    /\ \A m \in Requests :
          claimed.provisioning_queue[m] + Pending(provisioning_queue, m)
             <= added.provisioning_queue[m]
    /\ \A n \in ProfileNames :
          claimed.prov_generate_vpn[n] + Pending(prov_generate_vpn, n)
             <= added.prov_generate_vpn[n]

\* A request was added once and handed out once, and a later DequeueOldest
\* call found the queue empty.
C1_Witness ==
    /\ \E m \in Requests :
          claimed.provisioning_queue[m] = 1 /\ added.provisioning_queue[m] = 1
    /\ ret.op = "get_item_provisioning_queue"
    /\ ret.kind = "list"
    /\ ret.val = <<>>

UniqueMembers(zset) == \A e, f \in zset : e.member = f.member => e = f

\* C9: each queue holds at most one entry per item, and an Enqueue of an item
\* that is pending leaves the queue, scores included, as it was.
C9_EnqueueDeduplicates ==
    [][ /\ UniqueMembers(provisioning_queue')
        /\ UniqueMembers(prov_generate_vpn')
        /\ \A w \in Workers :
              ( /\ AddItemProvisioningQueueZadd(w)
                /\ pc[w].new_request \in Members(provisioning_queue) )
                  => provisioning_queue' = provisioning_queue
        /\ \A w \in Workers :
              ( /\ AddProvGenerateVpnZadd(w)
                /\ pc[w].profile_name \in Members(prov_generate_vpn) )
                  => prov_generate_vpn' = prov_generate_vpn
      ]_vars

\* The last call enqueued, without a store failure, a request that is pending
\* with an older score than the one the call carried.
C9_Witness ==
    /\ ret.op = "add_item_provisioning_queue"
    /\ ret.kind = "True"
    /\ \E e \in provisioning_queue :
          e.member = ret.args[1] /\ e.score < ret.args[2]

\* C10: DequeueOldest on the provisioning queue, when the store call succeeds,
\* removes exactly the pending entry of lowest score and returns it, leaving the
\* others pending; on an empty queue it returns the empty list and changes nothing.
C10_DequeueOldest ==
    [][ (\E w \in Workers : GetItemProvisioningQueue(w)) =>
           IF ret'.kind = "err"
           THEN provisioning_queue' = provisioning_queue
           ELSE IF provisioning_queue = {}
           THEN /\ ret'.kind = "list"
                /\ ret'.val = <<>>
                /\ provisioning_queue' = provisioning_queue
           ELSE /\ ret'.kind = "list"
                /\ Len(ret'.val) = 1
                /\ ret'.val[1] \in provisioning_queue
                /\ \A f \in provisioning_queue : ret'.val[1].score <= f.score
                /\ provisioning_queue' = provisioning_queue \ {ret'.val[1]}
      ]_vars

\* The last call returned an entry and a newer entry is still pending.
C10_Witness ==
    /\ ret.op = "get_item_provisioning_queue"
    /\ ret.kind = "list"
    /\ Len(ret.val) = 1
    /\ \E f \in provisioning_queue : ret.val[1].score < f.score

\* C11: every profile name that has left the VPN-generation queue was returned
\* to the DequeueOldest call that removed it: per name, the additions are the
\* hand-outs plus the entry still pending.
C11_DequeuedIsReturned ==
    \A n \in ProfileNames :
       added.prov_generate_vpn[n]
          = claimed.prov_generate_vpn[n] + Pending(prov_generate_vpn, n)

\* C12: an Enqueue whose store call succeeds returns true exactly when the item
\* was not pending before the call and is pending after it, and false when the
\* item was pending already; on either queue.
C12_EnqueueReportsNewlyAdded ==
    [][ /\ \A w \in Workers :
             (AddItemProvisioningQueueZadd(w) /\ ret'.kind # "err") =>
                /\ ret'.kind = "True"
                     <=> /\ pc[w].new_request \notin Members(provisioning_queue)
                         /\ pc[w].new_request \in Members(provisioning_queue')
                /\ pc[w].new_request \in Members(provisioning_queue)
                     => ret'.kind = "False"
        /\ \A w \in Workers :
             (AddProvGenerateVpnZadd(w) /\ ret'.kind # "err") =>
                /\ ret'.kind = "True"
                     <=> /\ pc[w].profile_name \notin Members(prov_generate_vpn)
                         /\ pc[w].profile_name \in Members(prov_generate_vpn')
                /\ pc[w].profile_name \in Members(prov_generate_vpn)
                     => ret'.kind = "False"
      ]_vars

\* The entry a DequeueOldest call must return: no pending entry is older.
Oldest(zset, r) ==
    /\ r.kind = "list"
    /\ Len(r.val) = 1
    /\ r.val[1] \in zset
    /\ \A f \in zset : r.val[1].score <= f.score

\* C15: both queues deliver in enqueue order: a DequeueOldest whose store call
\* succeeds on a queue with pending entries returns an entry no pending entry is
\* older than, so that of two pending entries the one of lower score is returned
\* first and an entry behind m older ones is returned by the (m+1)-th such call
\* at the latest.
C15_DeliversInEnqueueOrder ==
    [][ /\ \A w \in Workers :
             ( /\ GetItemProvisioningQueue(w)
               /\ ret'.kind # "err"
               /\ provisioning_queue # {} )
                => Oldest(provisioning_queue, ret')
        /\ \A w \in Workers :
             ( /\ GetProvGenerateVpn(w)
               /\ ~(ret'.kind = "err" /\ ret'.val = <<"ConnectionError">>)
               /\ prov_generate_vpn # {} )
                => Oldest(prov_generate_vpn, ret')
      ]_vars

----------------------------------------------------------------------------
(* ACTIVE PROFILE HASH: the functions, one store call at a time *)

\* GetQuota's reading of a counter: an identity without a counter has none active.
Quota0(h, msg_addr) == IF HExists(h, msg_addr) THEN h[msg_addr] ELSE 0

\* add_active_profile_counter, line 132: hsetnx(hash_active_profiles,msg_addr,0).
add_active_profile_counter_hsetnx(h, msg_addr, fail) ==
    IF fail
    THEN [h |-> h, ret |-> PyFalse, done |-> TRUE]
    ELSE [h |-> HSetNX(h, msg_addr, 0), ret |-> PyNone, done |-> FALSE]

\* add_active_profile_counter, lines 134-138: hincrby(...,1) and return.
add_active_profile_counter_hincrby(h, msg_addr, fail) ==
    IF fail
    THEN [h |-> h, ret |-> PyFalse, done |-> TRUE]
    ELSE [h |-> HIncrBy(h, msg_addr, 1), ret |-> PyTrue, done |-> TRUE]

\* (mutant) subtracts whenever the counter is not negative.
subs_active_profile_counter_hget_ge(h, msg_addr, fail) ==
    IF fail \/ ~HExists(h, msg_addr)
    THEN [h |-> h, ret |-> PyFalse, done |-> TRUE]
    ELSE IF h[msg_addr] >= 0
         THEN [h |-> h, ret |-> PyNone, done |-> FALSE]
         ELSE [h |-> h, ret |-> PyTrue, done |-> TRUE]

\* subs_active_profile_counter, lines 145-146: hget and the test `> 0`.  With no
\* counter hget gives None, and None > 0 raises TypeError: the except clause
\* returns False.
subs_active_profile_counter_hget(h, msg_addr, fail) ==
    IF fail \/ ~HExists(h, msg_addr)
    THEN [h |-> h, ret |-> PyFalse, done |-> TRUE]
    ELSE IF h[msg_addr] > 0
         THEN [h |-> h, ret |-> PyNone, done |-> FALSE]
         ELSE [h |-> h, ret |-> PyTrue, done |-> TRUE]

\* subs_active_profile_counter, lines 147-150: hincrby(...,-1) and return.
subs_active_profile_counter_hincrby(h, msg_addr, fail) ==
    IF fail
    THEN [h |-> h, ret |-> PyFalse, done |-> TRUE]
    ELSE [h |-> HIncrBy(h, msg_addr, -1), ret |-> PyTrue, done |-> TRUE]

\* get_active_profile_counter: returns what hget returns; nothing catches a raise.
get_active_profile_counter(h, msg_addr, fail) ==
    IF fail THEN PyRaise("ConnectionError")
    ELSE IF HExists(h, msg_addr) THEN PyInt(h[msg_addr]) ELSE PyNone

\* del_active_profile_counter.
del_active_profile_counter(h, msg_addr, fail) ==
    IF fail
    THEN [h |-> h, ret |-> PyFalse]
    ELSE [h |-> HDel(h, msg_addr), ret |-> PyTrue]

\* A whole call of add_active_profile_counter with no other process in between.
add_active_profile_counter(h, msg_addr, fail1, fail2) ==
    LET s == add_active_profile_counter_hsetnx(h, msg_addr, fail1)
    IN IF s.done THEN s ELSE add_active_profile_counter_hincrby(s.h, msg_addr, fail2)

\* A whole call of subs_active_profile_counter with no other process in between.
subs_active_profile_counter(h, msg_addr, fail1, fail2) ==
    LET s == subs_active_profile_counter_hget(h, msg_addr, fail1)
    IN IF s.done THEN s ELSE subs_active_profile_counter_hincrby(s.h, msg_addr, fail2)

----------------------------------------------------------------------------
(* Steps of the active-profile functions, called by concurrent processes *)

AddActiveProfileCounterHsetnx(w) ==
    /\ pc[w].op = "idle"
    /\ \E msg_addr \in Addrs, fail \in BOOLEAN :
          /\ Quota0(active_profiles, msg_addr) < MaxCounter
          /\ LET s == add_active_profile_counter_hsetnx(active_profiles, msg_addr, fail)
             IN /\ active_profiles' = s.h
                /\ IF s.done
                   THEN /\ ret' = Returned(w, "add_active_profile_counter", <<msg_addr>>, s.ret)
                        /\ pc' = pc
                   ELSE /\ pc' = [pc EXCEPT ![w] =
                                    [op |-> "add_active_profile_counter", msg_addr |-> msg_addr]]
                        /\ ret' = ret
    /\ UNCHANGED <<notQuota, seqVars>>

AddActiveProfileCounterHincrby(w) ==
    /\ pc[w].op = "add_active_profile_counter"
    /\ \E fail \in BOOLEAN :
          LET s == add_active_profile_counter_hincrby(active_profiles, pc[w].msg_addr, fail)
          IN /\ active_profiles' = s.h
             /\ ret' = Returned(w, "add_active_profile_counter", <<pc[w].msg_addr>>, s.ret)
    /\ pc' = [pc EXCEPT ![w] = Idle]
    /\ UNCHANGED <<notQuota, seqVars>>

SubsActiveProfileCounterHget(w) ==
    /\ pc[w].op = "idle"
    /\ \E msg_addr \in Addrs, fail \in BOOLEAN :
          LET s == subs_active_profile_counter_hget(active_profiles, msg_addr, fail)
          IN /\ active_profiles' = s.h
             /\ IF s.done
                THEN /\ ret' = Returned(w, "subs_active_profile_counter", <<msg_addr>>, s.ret)
                     /\ pc' = pc
                ELSE /\ pc' = [pc EXCEPT ![w] =
                                 [op |-> "subs_active_profile_counter", msg_addr |-> msg_addr]]
                     /\ ret' = ret
    /\ UNCHANGED <<notQuota, seqVars>>

SubsActiveProfileCounterHincrby(w) ==
    /\ pc[w].op = "subs_active_profile_counter"
    /\ \E fail \in BOOLEAN :
          LET s == subs_active_profile_counter_hincrby(active_profiles, pc[w].msg_addr, fail)
          IN /\ active_profiles' = s.h
             /\ ret' = Returned(w, "subs_active_profile_counter", <<pc[w].msg_addr>>, s.ret)
    /\ pc' = [pc EXCEPT ![w] = Idle]
    /\ UNCHANGED <<notQuota, seqVars>>

GetActiveProfileCounter(w) ==
    /\ pc[w].op = "idle"
    /\ \E msg_addr \in Addrs, fail \in BOOLEAN :
          ret' = Returned(w, "get_active_profile_counter", <<msg_addr>>,
                          get_active_profile_counter(active_profiles, msg_addr, fail))
    /\ UNCHANGED <<active_profiles, pc, notQuota, seqVars>>

DelActiveProfileCounter(w) ==
    /\ pc[w].op = "idle"
    /\ \E msg_addr \in Addrs, fail \in BOOLEAN :
          LET s == del_active_profile_counter(active_profiles, msg_addr, fail)
          IN /\ active_profiles' = s.h
             /\ ret' = Returned(w, "del_active_profile_counter", <<msg_addr>>, s.ret)
    /\ UNCHANGED <<pc, notQuota, seqVars>>

NextQuota ==
    \/ \E w \in Workers : AddActiveProfileCounterHsetnx(w)
    \/ \E w \in Workers : AddActiveProfileCounterHincrby(w)
    \/ \E w \in Workers : SubsActiveProfileCounterHget(w)
    \/ \E w \in Workers : SubsActiveProfileCounterHincrby(w)
    \/ \E w \in Workers : GetActiveProfileCounter(w)
    \/ \E w \in Workers : DelActiveProfileCounter(w)

SpecQuota == Init /\ [][NextQuota]_vars

\* Concurrent processes that only increment and decrement.
NextQuotaIncDec ==
    \/ \E w \in Workers : AddActiveProfileCounterHsetnx(w)
    \/ \E w \in Workers : AddActiveProfileCounterHincrby(w)
    \/ \E w \in Workers : SubsActiveProfileCounterHget(w)
    \/ \E w \in Workers : SubsActiveProfileCounterHincrby(w)

SpecQuotaIncDec == Init /\ [][NextQuotaIncDec]_vars

----------------------------------------------------------------------------
(* The active-profile functions called one after the other: each step is a  *)
(* whole call, and the history keeps the two latest calls.                  *)

SeqAddActiveProfileCounter ==
    \E w \in Workers, msg_addr \in Addrs, fail1 \in BOOLEAN, fail2 \in BOOLEAN :
       /\ Quota0(active_profiles, msg_addr) < MaxCounter
       /\ LET s == add_active_profile_counter(active_profiles, msg_addr, fail1, fail2)
          IN /\ active_profiles' = s.h
             /\ ret' = Returned(w, "add_active_profile_counter", <<msg_addr>>, s.ret)
       /\ prev' = ret
       /\ before' = <<active_profiles, before[1]>>
       /\ UNCHANGED <<pc, notQuota>>

SeqSubsActiveProfileCounter ==
    \E w \in Workers, msg_addr \in Addrs, fail1 \in BOOLEAN, fail2 \in BOOLEAN :
       /\ LET s == subs_active_profile_counter(active_profiles, msg_addr, fail1, fail2)
          IN /\ active_profiles' = s.h
             /\ ret' = Returned(w, "subs_active_profile_counter", <<msg_addr>>, s.ret)
       /\ prev' = ret
       /\ before' = <<active_profiles, before[1]>>
       /\ UNCHANGED <<pc, notQuota>>

SeqGetActiveProfileCounter ==
    \E w \in Workers, msg_addr \in Addrs, fail \in BOOLEAN :
       /\ ret' = Returned(w, "get_active_profile_counter", <<msg_addr>>,
                          get_active_profile_counter(active_profiles, msg_addr, fail))
       /\ prev' = ret
       /\ before' = <<active_profiles, before[1]>>
       /\ UNCHANGED <<active_profiles, pc, notQuota>>

SeqDelActiveProfileCounter ==
    \E w \in Workers, msg_addr \in Addrs, fail \in BOOLEAN :
       /\ LET s == del_active_profile_counter(active_profiles, msg_addr, fail)
          IN /\ active_profiles' = s.h
             /\ ret' = Returned(w, "del_active_profile_counter", <<msg_addr>>, s.ret)
       /\ prev' = ret
       /\ before' = <<active_profiles, before[1]>>
       /\ UNCHANGED <<pc, notQuota>>

NextQuotaSeq ==
    \/ SeqAddActiveProfileCounter
    \/ SeqSubsActiveProfileCounter
    \/ SeqGetActiveProfileCounter
    \/ SeqDelActiveProfileCounter

SpecQuotaSeq == Init /\ [][NextQuotaSeq]_vars

----------------------------------------------------------------------------
(* Claims about the active-profile counter *)

\* C3: the counter of every address is >= 0 in every reachable state, also when
\* DecrementQuota calls on one address run concurrently.
C3_QuotaNeverNegative ==
    \A msg_addr \in DOMAIN active_profiles : active_profiles[msg_addr] >= 0

\* C7: in a sequential run, IncrementQuota(a) followed by DecrementQuota(a), both
\* reporting success, leaves GetQuota(a) at its prior value (no counter read as
\* 0); and DecrementQuota(a) on a counter of 0 leaves it at 0.
C7_IncrementThenDecrement ==
    /\ ( /\ ret.op = "subs_active_profile_counter"
         /\ ret.kind = "True"
         /\ prev.op = "add_active_profile_counter"
         /\ prev.kind = "True"
         /\ prev.args = ret.args )
          => Quota0(active_profiles, ret.args[1]) = Quota0(before[2], ret.args[1])
    /\ ( /\ ret.op = "subs_active_profile_counter"
         /\ Quota0(before[1], ret.args[1]) = 0 )
          => Quota0(active_profiles, ret.args[1]) = 0

\* The last two calls were a successful increment and a successful decrement
\* of an address whose counter was 1 or more before them.
C7_Witness ==
    /\ ret.op = "subs_active_profile_counter"
    /\ ret.kind = "True"
    /\ prev.op = "add_active_profile_counter"
    /\ prev.kind = "True"
    /\ prev.args = ret.args
    /\ Quota0(before[2], ret.args[1]) >= 1

\* The number a returned Python value compares equal to (True == 1, False == 0).
Yielded(r) ==
    IF r.kind = "int" THEN r.val[1]
    ELSE IF r.kind = "True" THEN 1
    ELSE IF r.kind = "False" THEN 0
    ELSE -1

\* C13: in a sequential run every IncrementQuota(a) that does not report failure
\* raises the counter by one, whatever its value, and yields the new counter
\* value to its caller (the n-th call from no counter yields n); a successful
\* DecrementQuota(a) right after it leaves the counter one below that.
C13_IncrementYieldsCount ==
    /\ ( /\ ret.op = "add_active_profile_counter"
         /\ ret.kind # "False" )
          => /\ Quota0(active_profiles, ret.args[1]) = Quota0(before[1], ret.args[1]) + 1
             /\ Yielded(ret) = Quota0(active_profiles, ret.args[1])
    /\ ( /\ ret.op = "subs_active_profile_counter"
         /\ ret.kind = "True"
         /\ prev.op = "add_active_profile_counter"
         /\ prev.kind # "False"
         /\ prev.args = ret.args )
          => Quota0(active_profiles, ret.args[1]) = Quota0(before[1], ret.args[1]) - 1

\* What C13 says of the counter alone, the value yielded to the caller left out.
IncrementCountsUnbounded ==
    /\ ( /\ ret.op = "add_active_profile_counter"
         /\ ret.kind # "False" )
          => Quota0(active_profiles, ret.args[1]) = Quota0(before[1], ret.args[1]) + 1
    /\ ( /\ ret.op = "subs_active_profile_counter"
         /\ ret.kind = "True"
         /\ prev.op = "add_active_profile_counter"
         /\ prev.kind # "False"
         /\ prev.args = ret.args )
          => Quota0(active_profiles, ret.args[1]) = Quota0(before[1], ret.args[1]) - 1

----------------------------------------------------------------------------
(* OPEN VPN IP ADDRESS SPACE HANDLING: the functions, one store call at a time *)

\* add_ip_address: hsetnx(hash_openvpn_blocked_ip_addresses,ip_address) inside try.
\* The call names no value for the field; `fail` stands for every way the call
\* raises, a helper that insists on the value included.
add_ip_address(h, ip_address, fail) ==
    IF fail
    THEN [h |-> h, ret |-> PyFalse]
    ELSE [h |-> HSetNX(h, ip_address, ""), ret |-> PyTrue]

\* exists_ip_address: returns what hexists returns.
exists_ip_address(h, ip_address) == HExists(h, ip_address)

\* del_ip_address.
del_ip_address(h, ip_address, fail) ==
    IF fail
    THEN [h |-> h, ret |-> PyFalse]
    ELSE [h |-> HDel(h, ip_address), ret |-> PyTrue]

\* openvpn_obtain_client_ip_address, line 196.
maximum_attempts == Cardinality(IPv4Network)

\* (mutant) `while result<=maximum_attempts`: one more turn of the loop.
openvpn_obtain_client_ip_address_while_le(h, result, IP_ADDRESS, fail) ==
    IF fail
    THEN [at |-> "return", result |-> result, ret |-> PyFalse]
    ELSE IF exists_ip_address(h, IP_ADDRESS)
         THEN IF result + 1 <= maximum_attempts
              THEN [at |-> "while", result |-> result + 1, ret |-> PyNone]
              ELSE [at |-> "return", result |-> result + 1, ret |-> PyFalse]
         ELSE [at |-> "add", result |-> result, ret |-> PyNone]

\* openvpn_obtain_client_ip_address, lines 197-201 and 204-206: one turn of the
\* loop with the address random.choice drew, up to the next store call or the
\* return.  A raise of hexists reaches the except clause of the function.
openvpn_obtain_client_ip_address_while(h, result, IP_ADDRESS, fail) ==
    IF fail
    THEN [at |-> "return", result |-> result, ret |-> PyFalse]
    ELSE IF exists_ip_address(h, IP_ADDRESS)
         THEN IF result + 1 < maximum_attempts
              THEN [at |-> "while", result |-> result + 1, ret |-> PyNone]
              ELSE [at |-> "return", result |-> result + 1, ret |-> PyFalse]
         ELSE [at |-> "add", result |-> result, ret |-> PyNone]

\* openvpn_obtain_client_ip_address, lines 202-203: add_ip_address(IP_ADDRESS),
\* whose result is dropped, then return IP_ADDRESS.
openvpn_obtain_client_ip_address_add(h, IP_ADDRESS, fail) ==
    LET a == add_ip_address(h, IP_ADDRESS, fail)
    IN [h |-> a.h, ret |-> PyStr(IP_ADDRESS), marked |-> a.ret.kind = "True"]

----------------------------------------------------------------------------
(* Steps of the address functions *)

\* The addresses handed to callers and not released since.
TotalReturned == SumOver(granted, IPv4Network) + SumOver(unmarked, IPv4Network)

\* One turn of the loop of openvpn_obtain_client_ip_address; the first turn
\* starts the call.
OpenvpnObtainClientIpAddressWhile(w) ==
    /\ \/ pc[w].op = "idle" /\ TotalReturned < MaxLeases
       \/ pc[w].op = "openvpn_obtain_client_ip_address" /\ pc[w].at = "while"
    /\ \E IP_ADDRESS \in IPv4Network, fail \in BOOLEAN :
          LET result == IF pc[w].op = "idle" THEN 0 ELSE pc[w].result
              s == openvpn_obtain_client_ip_address_while(blocked_ip_addresses, result,
                                                          IP_ADDRESS, fail)
          IN IF s.at = "return"
             THEN /\ ret' = Returned(w, "openvpn_obtain_client_ip_address", <<>>, s.ret)
                  /\ pc' = [pc EXCEPT ![w] = Idle]
             ELSE /\ pc' = [pc EXCEPT ![w] =
                              [op |-> "openvpn_obtain_client_ip_address", at |-> s.at,
                               result |-> s.result,
                               IP_ADDRESS |-> IF s.at = "add" THEN IP_ADDRESS ELSE 0]]
                  /\ ret' = ret
    /\ UNCHANGED <<leaseVars, notLease>>

OpenvpnObtainClientIpAddressAdd(w) ==
    /\ pc[w].op = "openvpn_obtain_client_ip_address"
    /\ pc[w].at = "add"
    /\ \E fail \in BOOLEAN :
          LET ip == pc[w].IP_ADDRESS
              s == openvpn_obtain_client_ip_address_add(blocked_ip_addresses, ip, fail)
          IN /\ blocked_ip_addresses' = s.h
             /\ ret' = Returned(w, "openvpn_obtain_client_ip_address", <<>>, s.ret)
             /\ granted' = IF s.marked THEN [granted EXCEPT ![ip] = @ + 1] ELSE granted
             /\ unmarked' = IF s.marked THEN unmarked ELSE [unmarked EXCEPT ![ip] = @ + 1]
    /\ pc' = [pc EXCEPT ![w] = Idle]
    /\ UNCHANGED notLease

ExistsIpAddress(w) ==
    /\ pc[w].op = "idle"
    /\ \E ip_address \in IPv4Network, fail \in BOOLEAN :
          ret' = Returned(w, "exists_ip_address", <<ip_address>>,
                    IF fail THEN PyRaise("ConnectionError")
                    ELSE IF exists_ip_address(blocked_ip_addresses, ip_address)
                         THEN PyTrue ELSE PyFalse)
    /\ UNCHANGED <<leaseVars, pc, notLease>>

\* del_ip_address; a released address is held by no call.
DelIpAddress(w) ==
    /\ pc[w].op = "idle"
    /\ \E ip_address \in IPv4Network, fail \in BOOLEAN :
          LET s == del_ip_address(blocked_ip_addresses, ip_address, fail)
          IN /\ blocked_ip_addresses' = s.h
             /\ ret' = Returned(w, "del_ip_address", <<ip_address>>, s.ret)
             /\ granted' = IF fail THEN granted ELSE [granted EXCEPT ![ip_address] = 0]
             /\ unmarked' = IF fail THEN unmarked ELSE [unmarked EXCEPT ![ip_address] = 0]
    /\ UNCHANGED <<pc, notLease>>

NextLease ==
    \/ \E w \in Workers : OpenvpnObtainClientIpAddressWhile(w)
    \/ \E w \in Workers : OpenvpnObtainClientIpAddressAdd(w)
    \/ \E w \in Workers : ExistsIpAddress(w)
    \/ \E w \in Workers : DelIpAddress(w)

SpecLease == Init /\ [][NextLease]_vars

\* One process leasing addresses, one call after the other, with no release.
NextLeaseSeq ==
    \/ OpenvpnObtainClientIpAddressWhile("w1")
    \/ OpenvpnObtainClientIpAddressAdd("w1")
    \/ ExistsIpAddress("w1")

SpecLeaseSeq == Init /\ [][NextLeaseSeq]_vars

\* A process inside a call of openvpn_obtain_client_ip_address runs on: its next
\* store call is issued, and returns or raises.
OpenvpnObtainClientIpAddressStep(w) ==
    /\ pc[w].op = "openvpn_obtain_client_ip_address"
    /\ \/ OpenvpnObtainClientIpAddressWhile(w)
       \/ OpenvpnObtainClientIpAddressAdd(w)

\* Concurrent processes that lease and release.
NextLeaseRelease ==
    \/ \E w \in Workers : OpenvpnObtainClientIpAddressWhile(w)
    \/ \E w \in Workers : OpenvpnObtainClientIpAddressAdd(w)
    \/ \E w \in Workers : DelIpAddress(w)

SpecLeaseFair ==
    /\ Init
    /\ [][NextLeaseRelease]_vars
    /\ \A w \in Workers : WF_vars(OpenvpnObtainClientIpAddressStep(w))

----------------------------------------------------------------------------
(* Claims about the lease pool *)

\* C2: no interleaving of the membership check and the mark-leased step of
\* concurrent LeaseAddress calls lets two calls return the same address: an
\* address is held, until it is released, by at most one of the calls that
\* marked it.
C2_NoDoubleLease == \A ip \in IPv4Network : granted[ip] <= 1

\* C4: in a sequential run with no release the addresses the successful
\* LeaseAddress calls returned are pairwise distinct, and once as many calls
\* as the range has addresses have succeeded every further call reports
\* exhaustion, so that no more calls succeed than the range has addresses.
C4_DistinctUntilExhausted ==
    /\ \A ip \in IPv4Network : granted[ip] + unmarked[ip] <= 1
    /\ TotalReturned <= Cardinality(IPv4Network)

\* C5: the address a LeaseAddress call returned is an address of the range and
\* is in the lease set when the call returns.
C5_ReturnedAddressIsLeased ==
    (ret.op = "openvpn_obtain_client_ip_address" /\ ret.kind = "str")
       => /\ ret.val[1] \in IPv4Network
          /\ HExists(blocked_ip_addresses, ret.val[1])

\* C14: every LeaseAddress call terminates, whatever the lease set holds and
\* whatever leases and releases run beside it: a call in progress has made fewer
\* colliding draws than the range has addresses, and it returns.
C14_LeaseAddressTerminates ==
    /\ [](\A w \in Workers :
             pc[w].op = "openvpn_obtain_client_ip_address"
                => pc[w].result < Cardinality(IPv4Network))
    /\ \A w \in Workers :
          (pc[w].op = "openvpn_obtain_client_ip_address") ~> (pc[w].op = "idle")

\* A call is one colliding draw short of the cap and about to draw again,
\* while the other process is inside a call of its own.
C14_Witness ==
    \E w \in Workers, v \in Workers :
       /\ v # w
       /\ pc[w].op = "openvpn_obtain_client_ip_address"
       /\ pc[w].at = "while"
       /\ pc[w].result = Cardinality(IPv4Network) - 1
       /\ pc[v].op = "openvpn_obtain_client_ip_address"

----------------------------------------------------------------------------
(* PROFILE_NAME:IP_ADDRESS RELATIONSHIP *)

\* add_profile_ip_relationship: hsetnx inside try; True unless the call raises.
add_profile_ip_relationship(h, profile_name, ip_address, fail) ==
    IF fail
    THEN [h |-> h, ret |-> PyFalse]
    ELSE [h |-> HSetNX(h, profile_name, ip_address), ret |-> PyTrue]

\* del_profile_ip_relationship.
del_profile_ip_relationship(h, profile_name, fail) ==
    IF fail
    THEN [h |-> h, ret |-> PyFalse]
    ELSE [h |-> HDel(h, profile_name), ret |-> PyTrue]

\* get_ip_for_profile: returns what hget returns, None for an unbound profile.
get_ip_for_profile(h, profile_name, fail) ==
    IF fail THEN PyRaise("ConnectionError")
    ELSE IF HExists(h, profile_name) THEN PyStr(h[profile_name]) ELSE PyNone

AddProfileIpRelationship(w) ==
    /\ pc[w].op = "idle"
    /\ \E profile_name \in ProfileNames, ip_address \in IPv4Network, fail \in BOOLEAN :
          LET s == add_profile_ip_relationship(profile_name_ip_address,
                                               profile_name, ip_address, fail)
          IN /\ profile_name_ip_address' = s.h
             /\ ret' = Returned(w, "add_profile_ip_relationship",
                              <<profile_name, ip_address>>, s.ret)
    /\ UNCHANGED <<pc, notRelation>>

DelProfileIpRelationship(w) ==
    /\ pc[w].op = "idle"
    /\ \E profile_name \in ProfileNames, fail \in BOOLEAN :
          LET s == del_profile_ip_relationship(profile_name_ip_address, profile_name, fail)
          IN /\ profile_name_ip_address' = s.h
             /\ ret' = Returned(w, "del_profile_ip_relationship", <<profile_name>>, s.ret)
    /\ UNCHANGED <<pc, notRelation>>

GetIpForProfile(w) ==
    /\ pc[w].op = "idle"
    /\ \E profile_name \in ProfileNames, fail \in BOOLEAN :
          ret' = Returned(w, "get_ip_for_profile", <<profile_name>>,
                          get_ip_for_profile(profile_name_ip_address, profile_name, fail))
    /\ UNCHANGED <<profile_name_ip_address, pc, notRelation>>

\* The lease pool and the relationship hash, used by concurrent processes.
NextPool ==
    \/ \E w \in Workers : OpenvpnObtainClientIpAddressWhile(w)
    \/ \E w \in Workers : OpenvpnObtainClientIpAddressAdd(w)
    \/ \E w \in Workers : DelIpAddress(w)
    \/ \E w \in Workers : AddProfileIpRelationship(w)
    \/ \E w \in Workers : DelProfileIpRelationship(w)
    \/ \E w \in Workers : GetIpForProfile(w)

SpecPool == Init /\ [][NextPool]_vars

\* The addresses some profile is bound to.
BoundAddresses(h) == { h[p] : p \in DOMAIN h }

\* C18: whenever no call is in progress, after any sequence of LeaseAddress,
\* ReleaseAddress, BindProfileToAddress and UnbindProfile calls, the lease set
\* holds only addresses of the range, and holds an address if and only if some
\* profile has a relationship entry with that address.
C18_LeaseSetMatchesRelationship ==
    (\A w \in Workers : pc[w].op = "idle")
       => /\ DOMAIN blocked_ip_addresses \subseteq IPv4Network
          /\ \A ip \in IPv4Network :
                HExists(blocked_ip_addresses, ip)
                   <=> ip \in BoundAddresses(profile_name_ip_address)

\* C19: the relationship is one-to-one in every reachable state: no two profile
\* names are bound to one address, and a BindProfileToAddress for a profile that
\* is bound changes nothing (a profile name is one field of the hash, so it
\* has at most one address).
C19_RelationshipOneToOne ==
    [][ /\ \A p, q \in DOMAIN profile_name_ip_address' :
             p # q => profile_name_ip_address'[p] # profile_name_ip_address'[q]
        /\ \A w \in Workers :
             ( /\ AddProfileIpRelationship(w)
               /\ ret'.args[1] \in DOMAIN profile_name_ip_address )
                => profile_name_ip_address' = profile_name_ip_address
      ]_vars

\* What C19 says of one profile alone: a bound profile keeps its first address.
BindKeepsFirstAddress ==
    [][ \A w \in Workers :
          ( /\ AddProfileIpRelationship(w)
            /\ ret'.args[1] \in DOMAIN profile_name_ip_address )
             => profile_name_ip_address' = profile_name_ip_address
      ]_vars

----------------------------------------------------------------------------
(* IDENTITY HANDLING: the functions, one store call at a time *)

\* identity_template, line 59; the JSON text stands for the record it encodes.
identity_template == [total_profiles |-> 0, profiles |-> <<>>, gpg |-> ""]

\* (mutant) hset in place of hsetnx: the record is written whether present or not.
add_identity_hset(h, msg_addr, fail) ==
    IF fail
    THEN [h |-> h, ret |-> PyRaise("ConnectionError")]
    ELSE [h |-> HSet(h, msg_addr, identity_template),
          ret |-> PyInt(HSetNXStatus(h, msg_addr))]

\* add_identity: returns the status of hsetnx; nothing catches a raise.
add_identity(h, msg_addr, fail) ==
    IF fail
    THEN [h |-> h, ret |-> PyRaise("ConnectionError")]
    ELSE [h |-> HSetNX(h, msg_addr, identity_template),
          ret |-> PyInt(HSetNXStatus(h, msg_addr))]

\* exists_identity.
exists_identity(h, msg_addr, fail) ==
    IF fail THEN PyRaise("ConnectionError")
    ELSE IF HExists(h, msg_addr) THEN PyTrue ELSE PyFalse

\* (mutant) the increment of line 85 left out: the record is written back as read.
upd_identity_counter_object_asread(identity_object) == identity_object

\* upd_identity_counter, lines 82-87: the record read, with total_profiles + 1.
upd_identity_counter_object(identity_object) ==
    [identity_object EXCEPT !.total_profiles = @ + 1]

\* upd_identity_profiles, lines 93-98: the record read, with profile_name appended.
upd_identity_profiles_object(identity_object, profile_name) ==
    [identity_object EXCEPT !.profiles = Append(@, profile_name)]

\* upd_identity_gpg, lines 104-109: the record read, with gpg replaced.
upd_identity_gpg_object(identity_object, gpg_key) ==
    [identity_object EXCEPT !.gpg = gpg_key]

\* (mutant) hsetnx in place of hset: an existing record is never rewritten.
upd_identity_hset_nx(h, msg_addr, identity_object, fail) ==
    IF fail
    THEN [h |-> h, ret |-> PyRaise("ConnectionError")]
    ELSE [h |-> HSetNX(h, msg_addr, identity_object), ret |-> PyNone]

\* The hset that ends each upd_identity_* function, which then returns None.
upd_identity_hset(h, msg_addr, identity_object, fail) ==
    IF fail
    THEN [h |-> h, ret |-> PyRaise("ConnectionError")]
    ELSE [h |-> HSet(h, msg_addr, identity_object), ret |-> PyNone]

\* del_identity.
del_identity(h, msg_addr, fail) ==
    IF fail
    THEN [h |-> h, ret |-> PyFalse]
    ELSE [h |-> HDel(h, msg_addr), ret |-> PyTrue]

----------------------------------------------------------------------------
(* Steps of the identity functions *)

AddIdentity(w) ==
    /\ pc[w].op = "idle"
    /\ \E msg_addr \in IdentityAddrs, fail \in BOOLEAN :
          LET s == add_identity(account_identities, msg_addr, fail)
          IN /\ account_identities' = s.h
             /\ ret' = Returned(w, "add_identity", <<msg_addr>>, s.ret)
    /\ UNCHANGED <<pc, notIdentity>>

ExistsIdentity(w) ==
    /\ pc[w].op = "idle"
    /\ \E msg_addr \in IdentityAddrs, fail \in BOOLEAN :
          ret' = Returned(w, "exists_identity", <<msg_addr>>,
                          exists_identity(account_identities, msg_addr, fail))
    /\ UNCHANGED <<account_identities, pc, notIdentity>>

\* The hget that starts an upd_identity_* function.  A raise of hget, and the
\* TypeError of subscripting the None it gives for an absent identity, leave
\* the function.
UpdIdentityRead(w, op, msg_addr, arg, fail) ==
    IF fail \/ ~HExists(account_identities, msg_addr)
    THEN /\ ret' = Returned(w, op, <<msg_addr>>,
                       PyRaise(IF fail THEN "ConnectionError" ELSE "TypeError"))
         /\ pc' = pc
    ELSE /\ pc' = [pc EXCEPT ![w] =
                     [op |-> op, msg_addr |-> msg_addr,
                      identity_object |->
                         IF op = "upd_identity_counter"
                         THEN upd_identity_counter_object(account_identities[msg_addr])
                         ELSE IF op = "upd_identity_profiles"
                         THEN upd_identity_profiles_object(account_identities[msg_addr], arg)
                         ELSE upd_identity_gpg_object(account_identities[msg_addr], arg)]]
         /\ ret' = ret

UpdIdentityCounterHget(w) ==
    /\ pc[w].op = "idle"
    /\ \E msg_addr \in IdentityAddrs, fail \in BOOLEAN :
          /\ HExists(account_identities, msg_addr)
                => account_identities[msg_addr].total_profiles < MaxProfiles
          /\ UpdIdentityRead(w, "upd_identity_counter", msg_addr, "", fail)
    /\ UNCHANGED <<account_identities, notIdentity>>

UpdIdentityProfilesHget(w) ==
    /\ pc[w].op = "idle"
    /\ \E msg_addr \in IdentityAddrs, profile_name \in ProfileNames, fail \in BOOLEAN :
          /\ HExists(account_identities, msg_addr)
                => Len(account_identities[msg_addr].profiles) < MaxProfiles
          /\ UpdIdentityRead(w, "upd_identity_profiles", msg_addr, profile_name, fail)
    /\ UNCHANGED <<account_identities, notIdentity>>

UpdIdentityGpgHget(w) ==
    /\ pc[w].op = "idle"
    /\ \E msg_addr \in IdentityAddrs, gpg_key \in GpgKeys, fail \in BOOLEAN :
          UpdIdentityRead(w, "upd_identity_gpg", msg_addr, gpg_key, fail)
    /\ UNCHANGED <<account_identities, notIdentity>>

UpdIdentityHset(w) ==
    /\ pc[w].op \in {"upd_identity_counter", "upd_identity_profiles", "upd_identity_gpg"}
    /\ \E fail \in BOOLEAN :
          LET s == upd_identity_hset(account_identities, pc[w].msg_addr,
                                     pc[w].identity_object, fail)
          IN /\ account_identities' = s.h
             /\ ret' = Returned(w, pc[w].op, <<pc[w].msg_addr>>, s.ret)
    /\ pc' = [pc EXCEPT ![w] = Idle]
    /\ UNCHANGED notIdentity

DelIdentity(w) ==
    /\ pc[w].op = "idle"
    /\ \E msg_addr \in IdentityAddrs, fail \in BOOLEAN :
          LET s == del_identity(account_identities, msg_addr, fail)
          IN /\ account_identities' = s.h
             /\ ret' = Returned(w, "del_identity", <<msg_addr>>, s.ret)
    /\ UNCHANGED <<pc, notIdentity>>

NextIdentity ==
    \/ \E w \in Workers : AddIdentity(w) /\ UNCHANGED identityHistory
    \/ \E w \in Workers : ExistsIdentity(w) /\ UNCHANGED identityHistory
    \/ \E w \in Workers : UpdIdentityCounterHget(w) /\ UNCHANGED identityHistory
    \/ \E w \in Workers : UpdIdentityProfilesHget(w) /\ UNCHANGED identityHistory
    \/ \E w \in Workers : UpdIdentityGpgHget(w) /\ UNCHANGED identityHistory
    \/ \E w \in Workers : UpdIdentityHset(w) /\ UNCHANGED identityHistory
    \/ \E w \in Workers : DelIdentity(w) /\ UNCHANGED identityHistory

SpecIdentity == Init /\ [][NextIdentity]_vars

----------------------------------------------------------------------------
(* The identity functions with the history of the writes to each record *)

UpdOps == {"upd_identity_counter", "upd_identity_profiles", "upd_identity_gpg"}

\* A step changed the record of msg_addr: created, removed or rewrote it.
Changed(msg_addr) ==
    \/ HExists(account_identities, msg_addr) # HExists(account_identities', msg_addr)
    \/ /\ HExists(account_identities, msg_addr)
       /\ HExists(account_identities', msg_addr)
       /\ account_identities'[msg_addr] # account_identities[msg_addr]

\* After a write by process w: a record changed under another process that has
\* read it and has not yet written it back has been raced.
RacedAfter(w) ==
    [a \in IdentityAddrs |->
        \/ raced[a]
        \/ /\ Changed(a)
           /\ \E v \in Workers \ {w} : pc[v].op \in UpdOps /\ pc[v].msg_addr = a]

\* After the hset of process w: one more completed update of the field.
AppliedAfterHset(w) ==
    IF ret'.kind # "None" THEN applied
    ELSE IF pc[w].op = "upd_identity_counter"
    THEN [applied EXCEPT ![pc[w].msg_addr].counter = @ + 1]
    ELSE IF pc[w].op = "upd_identity_profiles"
    THEN [applied EXCEPT ![pc[w].msg_addr].profiles = @ + 1]
    ELSE applied

\* After del_identity: the removed record has no updates.
AppliedAfterDel ==
    IF ret'.kind = "True"
    THEN [applied EXCEPT ![ret'.args[1]] = [counter |-> 0, profiles |-> 0]]
    ELSE applied

NextIdentityRace ==
    \/ \E w \in Workers : /\ AddIdentity(w)
                          /\ applied' = applied
                          /\ raced' = RacedAfter(w)
    \/ \E w \in Workers : /\ \A a \in IdentityAddrs : applied[a].counter < MaxApplied
                          /\ UpdIdentityCounterHget(w)
                          /\ UNCHANGED identityHistory
    \/ \E w \in Workers : /\ \A a \in IdentityAddrs : applied[a].profiles < MaxApplied
                          /\ UpdIdentityProfilesHget(w)
                          /\ UNCHANGED identityHistory
    \/ \E w \in Workers : UpdIdentityGpgHget(w) /\ UNCHANGED identityHistory
    \/ \E w \in Workers : /\ UpdIdentityHset(w)
                          /\ applied' = AppliedAfterHset(w)
                          /\ raced' = RacedAfter(w)
    \/ \E w \in Workers : /\ DelIdentity(w)
                          /\ applied' = AppliedAfterDel
                          /\ raced' = RacedAfter(w)

SpecIdentityRace == Init /\ [][NextIdentityRace]_vars

----------------------------------------------------------------------------
(* Claims about the identity directory *)

\* C6: AddIdentity(a) on an absent identity stores the zero-counter,
\* empty-profile-list record and reports created (1); on a present identity it
\* reports no-op (0) and leaves every stored record, whatever was written to it
\* since its creation, unchanged.  So two calls leave one record, the first's.
C6_AddIdentityIfAbsent ==
    [][ \A w \in Workers :
          AddIdentity(w) =>
             \/ ret'.kind = "raise" /\ account_identities' = account_identities
             \/ /\ ret'.kind = "int"
                /\ IF ret'.args[1] \in DOMAIN account_identities
                   THEN /\ ret'.val = <<0>>
                        /\ account_identities' = account_identities
                   ELSE /\ ret'.val = <<1>>
                        /\ DOMAIN account_identities'
                              = DOMAIN account_identities \cup {ret'.args[1]}
                        /\ account_identities'[ret'.args[1]] = identity_template
                        /\ \A a \in DOMAIN account_identities :
                              account_identities'[a] = account_identities[a]
      ]_vars

\* The last call was an AddIdentity that reported no-op on an identity whose
\* record had been written to since its creation.
C6_Witness ==
    /\ ret.op = "add_identity"
    /\ ret.kind = "int"
    /\ ret.val = <<0>>
    /\ ret.args[1] \in DOMAIN account_identities
    /\ account_identities[ret.args[1]] # identity_template

\* C16: the identity updates are not atomic, the last writer wins: an update
\* that completes without error stores the record as the call read it with the
\* call's own change, whatever other calls wrote to the record since that read,
\* so that of two concurrent updates the record may reflect only one.
C16_LastWriterWins ==
    [][ \A w \in Workers :
          (UpdIdentityHset(w) /\ ret'.kind = "None")
             => /\ HExists(account_identities', pc[w].msg_addr)
                /\ account_identities'[pc[w].msg_addr] = pc[w].identity_object
      ]_vars

\* Two concurrent IncrementIdentityProfileCount calls on one identity have both
\* completed without error and total_profiles is 1.
C16_Witness ==
    \E a \in IdentityAddrs :
       /\ ret.op = "upd_identity_counter"
       /\ ret.kind = "None"
       /\ ret.args = <<a>>
       /\ raced[a]
       /\ applied[a].counter = 2
       /\ HExists(account_identities, a)
       /\ account_identities[a].total_profiles = 1

\* A credential update that completed without error has erased a profile whose
\* append completed, without error, between its read and its write.
LostAppend ==
    \E a \in IdentityAddrs :
       /\ ret.op = "upd_identity_gpg"
       /\ ret.kind = "None"
       /\ ret.args = <<a>>
       /\ raced[a]
       /\ applied[a].profiles = 1
       /\ HExists(account_identities, a)
       /\ account_identities[a].profiles = <<>>

----------------------------------------------------------------------------
(* The quota and identity functions called one after the other, each step a  *)
(* whole call, over a store whose calls may fail.                            *)

NextStoreFailure ==
    \/ SeqAddActiveProfileCounter /\ UNCHANGED identityHistory
    \/ SeqSubsActiveProfileCounter /\ UNCHANGED identityHistory
    \/ SeqDelActiveProfileCounter /\ UNCHANGED identityHistory
    \/ AddIdentity("w1") /\ UNCHANGED identityHistory
    \/ DelIdentity("w1") /\ UNCHANGED identityHistory

SpecStoreFailure == Init /\ [][NextStoreFailure]_vars

\* A call changed no counter value (no counter reading as 0) and removed no record.
NothingLost(h, h2) ==
    /\ DOMAIN h \subseteq DOMAIN h2
    /\ \A k \in DOMAIN h : h2[k] = h[k]

\* The last step was a call of op for the address a.
Called(op, a) == ret'.op = op /\ ret'.args = <<a>>

\* What C20 says of a step that is a call for an address in S (DeleteQuota and
\* DeleteIdentity: for any address), fail1 and fail2 telling which store calls
\* of the step fail.
StoreFailureStep(S, fail1, fail2) ==
    /\ \A a \in S :
          LET inc == add_active_profile_counter(active_profiles, a, fail1, fail2)
          IN ( /\ Called("add_active_profile_counter", a)
               /\ ret'.kind = inc.ret.kind
               /\ active_profiles' = inc.h
               /\ SeqAddActiveProfileCounter )
                => /\ (fail1 \/ fail2) => ret'.kind = "False"
                   /\ ret'.kind = "False"
                         => /\ NothingLost(active_profiles, active_profiles')
                            /\ Quota0(active_profiles', a) = Quota0(active_profiles, a)
                   /\ (~fail1 /\ ~fail2) => ret'.kind = "True"
    /\ \A a \in S :
          LET dec == subs_active_profile_counter(active_profiles, a, fail1, fail2)
          IN ( /\ Called("subs_active_profile_counter", a)
               /\ ret'.kind = dec.ret.kind
               /\ active_profiles' = dec.h
               /\ SeqSubsActiveProfileCounter )
                => /\ (fail1 /\ fail2) => ret'.kind = "False"
                   /\ ret'.kind = "False" => active_profiles' = active_profiles
                   /\ (~fail1 /\ ~fail2) => ret'.kind = "True"
    /\ \A a \in Addrs :
          LET del == del_active_profile_counter(active_profiles, a, fail1)
          IN ( /\ Called("del_active_profile_counter", a)
               /\ ret'.kind = del.ret.kind
               /\ active_profiles' = del.h
               /\ SeqDelActiveProfileCounter )
                => IF fail1
                   THEN ret'.kind = "False" /\ active_profiles' = active_profiles
                   ELSE ret'.kind = "True"
    /\ \A a \in IdentityAddrs :
          LET del == del_identity(account_identities, a, fail1)
          IN ( /\ Called("del_identity", a)
               /\ ret'.kind = del.ret.kind
               /\ account_identities' = del.h
               /\ DelIdentity("w1") )
                => IF fail1
                   THEN ret'.kind = "False" /\ account_identities' = account_identities
                   ELSE ret'.kind = "True"

\* C20: IncrementQuota, DecrementQuota, DeleteQuota and DeleteIdentity return
\* false when their store calls fail, a call that returns false has changed no
\* counter value (no counter reading as 0) and removed no record, and they
\* return true when their store calls succeed.
C20_StoreFailureIsReported ==
    [][ \A fail1 \in BOOLEAN, fail2 \in BOOLEAN :
           StoreFailureStep(Addrs, fail1, fail2) ]_vars

\* C20 with IncrementQuota and DecrementQuota called only for an address that
\* has a counter.
StoreFailureIsReportedWithCounter ==
    [][ \A fail1 \in BOOLEAN, fail2 \in BOOLEAN :
           StoreFailureStep(DOMAIN active_profiles, fail1, fail2) ]_vars

----------------------------------------------------------------------------
(* PROFILE HANDLING: the profile_names hash *)

\* (mutant) hset in place of hsetnx: a later registration takes the name over.
add_profile_name_hset(h, profile_name, msg_addr, fail) ==
    IF fail
    THEN [h |-> h, ret |-> PyRaise("ConnectionError")]
    ELSE [h |-> HSet(h, profile_name, msg_addr),
          ret |-> PyInt(HSetNXStatus(h, profile_name))]

\* add_profile_name: returns the status of hsetnx; nothing catches a raise.
add_profile_name(h, profile_name, msg_addr, fail) ==
    IF fail
    THEN [h |-> h, ret |-> PyRaise("ConnectionError")]
    ELSE [h |-> HSetNX(h, profile_name, msg_addr),
          ret |-> PyInt(HSetNXStatus(h, profile_name))]

\* get_profile_name: returns what hget returns, None for an absent name.
get_profile_name(h, profile_name, fail) ==
    IF fail THEN PyRaise("ConnectionError")
    ELSE IF HExists(h, profile_name) THEN PyStr(h[profile_name]) ELSE PyNone

\* del_profile_name.
del_profile_name(h, profile_name, fail) ==
    IF fail
    THEN [h |-> h, ret |-> PyFalse]
    ELSE [h |-> HDel(h, profile_name), ret |-> PyTrue]

AddProfileName(w) ==
    /\ pc[w].op = "idle"
    /\ \E profile_name \in ProfileNames, msg_addr \in Addrs, fail \in BOOLEAN :
          LET s == add_profile_name(profile_names, profile_name, msg_addr, fail)
          IN /\ profile_names' = s.h
             /\ ret' = Returned(w, "add_profile_name", <<profile_name, msg_addr>>, s.ret)
    /\ UNCHANGED <<pc, notRegistry>>

GetProfileName(w) ==
    /\ pc[w].op = "idle"
    /\ \E profile_name \in ProfileNames, fail \in BOOLEAN :
          ret' = Returned(w, "get_profile_name", <<profile_name>>,
                          get_profile_name(profile_names, profile_name, fail))
    /\ UNCHANGED <<profile_names, pc, notRegistry>>

DelProfileName(w) ==
    /\ pc[w].op = "idle"
    /\ \E profile_name \in ProfileNames, fail \in BOOLEAN :
          LET s == del_profile_name(profile_names, profile_name, fail)
          IN /\ profile_names' = s.h
             /\ ret' = Returned(w, "del_profile_name", <<profile_name>>, s.ret)
    /\ UNCHANGED <<pc, notRegistry>>

NextRegistry ==
    \/ \E w \in Workers : AddProfileName(w)
    \/ \E w \in Workers : GetProfileName(w)
    \/ \E w \in Workers : DelProfileName(w)

SpecRegistry == Init /\ [][NextRegistry]_vars

----------------------------------------------------------------------------
(* The life of a profile: the identity functions beside the functions that   *)
(* expire a profile (quota decrement, address release, unbind, unregister).  *)

\* The store after one add_active_profile_counter("a1"): one active profile is
\* counted for a1, and there is no identity record yet.
InitProfileLife ==
    /\ provisioning_queue = {}
    /\ prov_generate_vpn = {}
    /\ now = 0
    /\ added = [provisioning_queue |-> [m \in Requests |-> 0],
                prov_generate_vpn |-> [m \in ProfileNames |-> 0]]
    /\ claimed = [provisioning_queue |-> [m \in Requests |-> 0],
                  prov_generate_vpn |-> [m \in ProfileNames |-> 0]]
    /\ account_identities = EmptyHash
    /\ profile_names = EmptyHash
    /\ active_profiles = HIncrBy(HSetNX(EmptyHash, "a1", 0), "a1", 1)
    /\ blocked_ip_addresses = EmptyHash
    /\ profile_name_ip_address = EmptyHash
    /\ granted = [ip \in IPv4Network |-> 0]
    /\ unmarked = [ip \in IPv4Network |-> 0]
    /\ pc = [w \in Workers |-> Idle]
    /\ ret = NoCall
    /\ prev = NoCall
    /\ before = <<EmptyHash, EmptyHash>>
    /\ applied = [a \in IdentityAddrs |-> [counter |-> 0, profiles |-> 0]]
    /\ raced = [a \in IdentityAddrs |-> FALSE]

NextProfileLife ==
    \/ NextIdentityRace
    \/ \E w \in Workers : SubsActiveProfileCounterHget(w)
    \/ \E w \in Workers : SubsActiveProfileCounterHincrby(w)
    \/ \E w \in Workers : DelIpAddress(w)
    \/ \E w \in Workers : DelProfileIpRelationship(w)
    \/ \E w \in Workers : DelProfileName(w)

SpecProfileLife == InitProfileLife /\ [][NextProfileLife]_vars

\* No update of the identity is between its read and its write.
Quiescent(a) == \A w \in Workers : ~(pc[w].op \in UpdOps /\ pc[w].msg_addr = a)

\* What C17 says of a step, for the identities a with covered[a].
ProfileCountStep(covered) ==
    /\ \A a \in IdentityAddrs :
          ( /\ covered[a]
            /\ HExists(account_identities', a)
            /\ Quiescent(a)'
            /\ applied'[a].counter = applied'[a].profiles )
             => /\ account_identities'[a].total_profiles
                     = Len(account_identities'[a].profiles)
                /\ account_identities'[a].total_profiles = applied'[a].profiles
    /\ \A a \in IdentityAddrs :
          (covered[a] /\ HExists(account_identities, a))
             => \/ \E w \in Workers : DelIdentity(w)
                \/ /\ HExists(account_identities', a)
                   /\ account_identities'[a].total_profiles
                         >= account_identities[a].total_profiles
    /\ ( \E w \in Workers :
            \/ SubsActiveProfileCounterHget(w)
            \/ SubsActiveProfileCounterHincrby(w)
            \/ DelIpAddress(w)
            \/ DelProfileIpRelationship(w)
            \/ DelProfileName(w) )
          => account_identities' = account_identities

\* C17 as stated: for every identity, when as many IncrementIdentityProfileCount
\* as AppendProfileToIdentity calls have completed and none is in progress,
\* total_profiles is the number of entries appended to profiles; total_profiles
\* never decreases on an operation other than DeleteIdentity; and DecrementQuota,
\* ReleaseAddress, UnbindProfile and UnregisterProfile leave the records unchanged.
C17_TotalProfilesCountsAppends ==
    [][ ProfileCountStep([a \in IdentityAddrs |-> TRUE]) ]_vars

\* C17 amended: the same, for every identity none of whose updates has had its
\* record changed by another call between the update's read and its write.
C17_TotalProfilesCountsAppendsUnraced ==
    [][ ProfileCountStep([a \in IdentityAddrs |-> ~raced'[a]]) ]_vars

\* One profile creation has completed both updates of an identity that was never
\* raced, nothing is in progress, and the last call was a DecrementQuota that
\* reported success.
C17_Witness ==
    \E a \in IdentityAddrs :
       /\ ~raced[a]
       /\ Quiescent(a)
       /\ applied[a] = [counter |-> 1, profiles |-> 1]
       /\ HExists(account_identities, a)
       /\ account_identities[a].total_profiles = 1
       /\ Len(account_identities[a].profiles) = 1
       /\ ret.op = "subs_active_profile_counter"
       /\ ret.kind = "True"

----------------------------------------------------------------------------
(* Claims about the profile registry *)

\* C8: RegisterProfile(n, a) on an unregistered name makes a the owner and
\* reports created (1); on a registered name it reports no-op (0) and changes
\* nothing; only UnregisterProfile changes or removes an owner, and
\* LookupProfileOwner(n) returns the stored owner.  So of two registrations of
\* one name, in any order of their store calls, the first is the owner.
C8_RegisterProfileIfAbsent ==
    [][ /\ \A w \in Workers :
             AddProfileName(w) =>
                \/ ret'.kind = "raise" /\ profile_names' = profile_names
                \/ /\ ret'.kind = "int"
                   /\ IF ret'.args[1] \in DOMAIN profile_names
                      THEN /\ ret'.val = <<0>>
                           /\ profile_names' = profile_names
                      ELSE /\ ret'.val = <<1>>
                           /\ profile_names'
                                = profile_names @@ (ret'.args[1] :> ret'.args[2])
        /\ \A n \in DOMAIN profile_names :
             \/ \E w \in Workers : DelProfileName(w)
             \/ n \in DOMAIN profile_names' /\ profile_names'[n] = profile_names[n]
        /\ \A w \in Workers :
             (GetProfileName(w) /\ ret'.kind = "str")
                => /\ ret'.args[1] \in DOMAIN profile_names
                   /\ ret'.val = <<profile_names[ret'.args[1]]>>
      ]_vars

\* The last call was a registration, by another address, of a name that has an
\* owner: it reported no-op and the owner is still the first registrant.
C8_Witness ==
    /\ ret.op = "add_profile_name"
    /\ ret.kind = "int"
    /\ ret.val = <<0>>
    /\ ret.args[1] \in DOMAIN profile_names
    /\ profile_names[ret.args[1]] # ret.args[2]

====
